---------------------------- MODULE Spec2Model ----------------------------
(***************************************************************************)
(* A model of PyDocSmith/common.py: the Docstring aggregate with its       *)
(* DocstringMeta fragments, the derived views over meta, and the           *)
(* normalisation pass format_docstring_to_pep257.                          *)
(*                                                                         *)
(* Python values are tagged records [type, val]: a str is the sequence of  *)
(* its characters (one-character strings), None is PyNone, an int is       *)
(* PyInt(i).  The library calls the pass makes (str.strip, str.split,      *)
(* str.join, textwrap.fill with its default options) are modelled by what  *)
(* CPython does, character by character.  The alphabet has no hyphen, so   *)
(* textwrap's hyphen rules never apply.                                    *)
(***************************************************************************)
EXTENDS Integers, Sequences, FiniteSets

(***************************************************************************)
(* Bounds of the model.                                                    *)
(***************************************************************************)
MaxLen == 4
MaxWidth == 4
MaxMeta == 2
MaxViewMeta == 3
MaxChain == 2

(***************************************************************************)
(* Program constants.                                                      *)
(***************************************************************************)
DefaultWidth == 72
TabSize == 8

(***************************************************************************)
(* Python values.                                                          *)
(***************************************************************************)
PyNone == [type |-> "NoneType", val |-> <<>>]
PyStr(s) == [type |-> "str", val |-> s]
PyInt(i) == [type |-> "int", val |-> i]

Whitespace == {" ", "\t", "\n"}
IsSpace(c) == c \in Whitespace

\* bool(x) of a str or None: the test "if docstring.short_description:".
Truthy(x) == x.type = "str" /\ x.val # <<>>

RECURSIVE LStrip(_)
LStrip(s) ==
    IF s = <<>> THEN <<>>
    ELSE IF IsSpace(Head(s)) THEN LStrip(Tail(s)) ELSE s

RECURSIVE RStrip(_)
RStrip(s) ==
    IF s = <<>> THEN <<>>
    ELSE IF IsSpace(s[Len(s)]) THEN RStrip(SubSeq(s, 1, Len(s) - 1)) ELSE s

\* str.strip() with no argument.
StrStrip(s) == RStrip(LStrip(s))

\* The attribute lookup obj.strip followed by the call: only a str has it.
MethodStrip(obj) ==
    IF obj.type = "str"
    THEN [raised |-> "None", value |-> PyStr(StrStrip(obj.val))]
    ELSE [raised |-> "AttributeError", value |-> PyNone]

\* The k-th smallest element of a set of positions.
Nth(S, k) == CHOOSE x \in S : Cardinality({y \in S : y <= x}) = k

\* The text between the separators at the positions seps: one piece more
\* than there are separators.
PiecesBetween(s, seps) ==
    [k \in 1..(Cardinality(seps) + 1) |->
        SubSeq(s,
               IF k = 1 THEN 1 ELSE Nth(seps, k - 1) + 1,
               IF k = Cardinality(seps) + 1 THEN Len(s) ELSE Nth(seps, k) - 1)]

\* str.split("\n"): always at least one piece.
StrSplitLines(s) == PiecesBetween(s, {i \in 1..Len(s) : s[i] = "\n"})

\* "\n".join(lines)
RECURSIVE StrJoinLines(_)
StrJoinLines(lines) ==
    IF lines = <<>> THEN <<>>
    ELSE IF Len(lines) = 1 THEN lines[1]
    ELSE lines[1] \o <<"\n">> \o StrJoinLines(Tail(lines))

\* "".join(chunks)
RECURSIVE Concat(_)
Concat(chunks) ==
    IF chunks = <<>> THEN <<>> ELSE Head(chunks) \o Concat(Tail(chunks))

(***************************************************************************)
(* textwrap.fill(text, width) with the default TextWrapper options:        *)
(* expand_tabs, replace_whitespace, drop_whitespace, break_long_words,     *)
(* tabsize 8, no indents, no max_lines.                                    *)
(***************************************************************************)
Spaces(n) == [i \in 1..n |-> " "]

\* The column the p-th character of s starts in, s having no tab before
\* it and starting in column col: the column restarts after a line break.
ColumnAt(s, p, col) ==
    IF \E i \in 1..(p - 1) : s[i] = "\n"
    THEN (p - 1) - Nth({i \in 1..(p - 1) : s[i] = "\n"},
                       Cardinality({i \in 1..(p - 1) : s[i] = "\n"}))
    ELSE col + (p - 1)

\* str.expandtabs(tabsize) of a text starting in column col: a tab becomes
\* the spaces up to the next multiple of tabsize.  ExpandAt expands the
\* tab at p, the first one, which stands in column c.
RECURSIVE ExpandTabsFrom(_, _)
ExpandAt(s, p, c) ==
    SubSeq(s, 1, p - 1) \o Spaces(TabSize - (c % TabSize))
    \o ExpandTabsFrom(SubSeq(s, p + 1, Len(s)), c + TabSize - (c % TabSize))

FirstTab(s) == Nth({i \in 1..Len(s) : s[i] = "\t"}, 1)

ExpandTabsFrom(s, col) ==
    IF \A i \in 1..Len(s) : s[i] # "\t" THEN s
    ELSE ExpandAt(s, FirstTab(s), ColumnAt(s, FirstTab(s), col))

\* The translation of every whitespace character to a space.
ReplaceWhitespace(s) == [i \in 1..Len(s) |-> IF IsSpace(s[i]) THEN " " ELSE s[i]]

\* A variant that expands the tabs and leaves line breaks as they are.
MungeWhitespaceExpandOnly(s) == ExpandTabsFrom(s, 0)

\* TextWrapper._munge_whitespace
MungeWhitespace(s) == ReplaceWhitespace(ExpandTabsFrom(s, 0))

\* The maximal runs of whitespace and of non-whitespace of a text, given
\* the positions where a run starts.
RunsFrom(s, starts) ==
    [k \in 1..Cardinality(starts) |->
        SubSeq(s, Nth(starts, k),
               IF k = Cardinality(starts) THEN Len(s) ELSE Nth(starts, k + 1) - 1)]

RunsOf(s) ==
    RunsFrom(s, {i \in 1..Len(s) : i = 1 \/ IsSpace(s[i]) # IsSpace(s[i - 1])})

\* TextWrapper._split: the chunks of the munged text.
SplitChunks(s) == RunsOf(MungeWhitespace(s))

\* chunk.strip() == ''
IsBlank(chunk) == \A i \in 1..Len(chunk) : IsSpace(chunk[i])

\* The inner "while chunks" loop of _wrap_chunks: move chunks onto the
\* current line while they fit.
RECURSIVE TakeFitting(_, _, _, _)
TakeFitting(chunks, cur_line, cur_len, width) ==
    IF chunks # <<>> /\ cur_len + Len(Head(chunks)) <= width
    THEN TakeFitting(Tail(chunks), Append(cur_line, Head(chunks)),
                     cur_len + Len(Head(chunks)), width)
    ELSE [chunks |-> chunks, cur_line |-> cur_line, cur_len |-> cur_len]

\* A variant with break_long_words off: the long chunk goes whole onto a
\* line of its own.
HandleLongWordWhole(t, width) ==
    IF t.cur_line = <<>>
    THEN [chunks |-> Tail(t.chunks), cur_line |-> <<Head(t.chunks)>>,
          cur_len |-> Len(Head(t.chunks))]
    ELSE t

\* TextWrapper._handle_long_word with break_long_words: cut the chunk at
\* the space left on the line.  t is the state the inner loop left.
HandleLongWord(t, width) ==
    [chunks |-> <<SubSeq(Head(t.chunks),
                         (IF width < 1 THEN 1 ELSE width - t.cur_len) + 1,
                         Len(Head(t.chunks)))>> \o Tail(t.chunks),
     cur_line |-> Append(t.cur_line,
                         SubSeq(Head(t.chunks), 1,
                                IF width < 1 THEN 1 ELSE width - t.cur_len)),
     cur_len |-> t.cur_len]

\* "if chunks and len(chunks[-1]) > width: self._handle_long_word(...)"
LongWordStep(t, width) ==
    IF t.chunks # <<>> /\ Len(Head(t.chunks)) > width
    THEN HandleLongWord(t, width)
    ELSE t

\* A variant that keeps the whitespace a line ends with.
DropTrailingBlankKept(cur_line) == cur_line

\* "if self.drop_whitespace and cur_line and cur_line[-1].strip() == ''"
DropTrailingBlank(cur_line) ==
    IF cur_line # <<>> /\ IsBlank(cur_line[Len(cur_line)])
    THEN SubSeq(cur_line, 1, Len(cur_line) - 1)
    ELSE cur_line

\* "if cur_line: lines.append(''.join(cur_line))"
AppendLine(lines, cur_line) ==
    IF cur_line # <<>> THEN Append(lines, Concat(cur_line)) ELSE lines

\* "if self.drop_whitespace and chunks[-1].strip() == '' and lines"
DropLeadingBlank(chunks, lines) ==
    IF IsBlank(Head(chunks)) /\ lines # <<>> THEN Tail(chunks) ELSE chunks

\* The outer "while chunks" loop of _wrap_chunks; WrapRest continues it
\* with the state h one pass has left.
RECURSIVE WrapChunks(_, _, _)
WrapRest(h, lines, width) ==
    WrapChunks(h.chunks, AppendLine(lines, DropTrailingBlank(h.cur_line)), width)

WrapChunks(chunks, lines, width) ==
    IF chunks = <<>> THEN lines
    ELSE WrapRest(LongWordStep(TakeFitting(DropLeadingBlank(chunks, lines),
                                           <<>>, 0, width), width),
                  lines, width)

\* A variant that does not reject a width of 0 or less.
TextwrapFillUnchecked(text, width) ==
    [raised |-> "None",
     value |-> PyStr(StrJoinLines(WrapChunks(SplitChunks(text), <<>>, width)))]

\* textwrap.fill(text, width): the chunks are split first, then the width is
\* checked, then the lines are joined.
TextwrapFill(text, width) ==
    IF width <= 0
    THEN [raised |-> "ValueError", value |-> PyNone]
    ELSE [raised |-> "None",
          value |-> PyStr(StrJoinLines(WrapChunks(SplitChunks(text), <<>>, width)))]

(***************************************************************************)
(* The metadata model.  A fragment is a record holding every attribute any *)
(* variant has; an attribute its class does not define is "NoAttr".  The   *)
(* attributes the pass never reads (arg_name, type_name, ...) are opaque   *)
(* and held as plain strings, "None" for None.  oid is the identity of the *)
(* object (its position when it was appended).                             *)
(***************************************************************************)
Classes == {"DocstringParam", "DocstringReturns", "DocstringRaises",
            "DocstringDeprecated", "DocstringExample", "DocstringNote"}

\* DocstringMeta.__init__
DocstringMeta(cls, args, description) ==
    [cls |-> cls, oid |-> 0, args |-> args, description |-> description,
     arg_name |-> "None", type_name |-> "NoAttr", is_optional |-> "NoAttr",
     default |-> "NoAttr", is_generator |-> "NoAttr", return_name |-> "NoAttr",
     version |-> "NoAttr", snippet |-> "NoAttr"]

DocstringParam(args, description, arg_name, type_name, is_optional, default) ==
    [DocstringMeta("DocstringParam", args, description) EXCEPT
        !.arg_name = arg_name, !.type_name = type_name,
        !.is_optional = is_optional, !.default = default]

DocstringReturns(args, description, type_name, is_generator, return_name) ==
    [DocstringMeta("DocstringReturns", args, description) EXCEPT
        !.type_name = type_name, !.is_generator = is_generator,
        !.return_name = return_name, !.arg_name = "None"]

DocstringRaises(args, description, type_name) ==
    [DocstringMeta("DocstringRaises", args, description) EXCEPT
        !.type_name = type_name]

DocstringDeprecated(args, description, version) ==
    [DocstringMeta("DocstringDeprecated", args, description) EXCEPT
        !.version = version]

DocstringExample(args, snippet, description) ==
    [DocstringMeta("DocstringExample", args, description) EXCEPT
        !.snippet = snippet]

DocstringNote(args, snippet, description) ==
    [DocstringMeta("DocstringNote", args, description) EXCEPT
        !.snippet = snippet]

\* Docstring.__init__
Docstring(style) ==
    [short_description |-> PyNone, long_description |-> PyNone,
     blank_after_short_description |-> FALSE,
     blank_after_long_description |-> FALSE,
     meta |-> <<>>, style |-> style]

\* A variant that collects the matching fragments newest first.
RECURSIVE ItemsOfClassReversed(_, _)
ItemsOfClassReversed(meta, cls) ==
    IF meta = <<>> THEN <<>>
    ELSE IF Head(meta).cls = cls
         THEN ItemsOfClassReversed(Tail(meta), cls) \o <<Head(meta)>>
    ELSE ItemsOfClassReversed(Tail(meta), cls)

\* The list comprehension [item for item in meta if isinstance(item, cls)].
RECURSIVE ItemsOfClass(_, _)
ItemsOfClass(meta, cls) ==
    IF meta = <<>> THEN <<>>
    ELSE IF Head(meta).cls = cls
         THEN <<Head(meta)>> \o ItemsOfClass(Tail(meta), cls)
    ELSE ItemsOfClass(Tail(meta), cls)

\* The loop "for item in meta: if isinstance(item, cls): return item",
\* falling through to "return None".
RECURSIVE FirstOfClass(_, _)
FirstOfClass(meta, cls) ==
    IF meta = <<>> THEN PyNone
    ELSE IF Head(meta).cls = cls THEN Head(meta)
    ELSE FirstOfClass(Tail(meta), cls)

params(d) == ItemsOfClass(d.meta, "DocstringParam")
raises(d) == ItemsOfClass(d.meta, "DocstringRaises")
returns(d) == FirstOfClass(d.meta, "DocstringReturns")
many_returns(d) == ItemsOfClass(d.meta, "DocstringReturns")
deprecation(d) == FirstOfClass(d.meta, "DocstringDeprecated")
examples(d) == ItemsOfClass(d.meta, "DocstringExample")
notes(d) == ItemsOfClass(d.meta, "DocstringNote")

(***************************************************************************)
(* format_docstring_to_pep257.  Every step yields [raised, ...]: raised is *)
(* "None" or the name of the exception that ended the call.                *)
(***************************************************************************)
\* textwrap.fill(x.strip(), width) given what x.strip() came to.
FillStripped(st, width) ==
    IF st.raised # "None" THEN st ELSE TextwrapFill(st.value.val, width)

\* "if x: x = textwrap.fill(x.strip(), width)" for short_description and
\* long_description.
FillField(v, width) ==
    IF Truthy(v)
    THEN FillStripped(MethodStrip(v), width)
    ELSE [raised |-> "None", value |-> v]

\* enumerate(split_description): the pairs (index, line), index from 0.
Enumerate(lines) == [k \in 1..Len(lines) |-> <<PyInt(k - 1), PyStr(lines[k])>>]

\* "for itm, idx in enumerate(...)": the first name takes the index, the
\* second the line.
LoopTarget(pair) == [itm |-> pair[1], idx |-> pair[2]]

\* The body "split_description[idx] = textwrap.fill(itm.strip(), width)" for
\* the pairs from position k on.  The right-hand side f is evaluated first,
\* then the subscript idx is used.
RECURSIVE DescriptionLoop(_, _, _)
StoreLine(split_description, k, width, idx, f) ==
    IF f.raised # "None"
    THEN [raised |-> f.raised, value |-> split_description]
    ELSE IF idx.type # "int"
    THEN [raised |-> "TypeError", value |-> split_description]
    ELSE DescriptionLoop([split_description EXCEPT ![idx.val + 1] = f.value.val],
                         k + 1, width)

LoopBody(split_description, k, width, t) ==
    StoreLine(split_description, k, width, t.idx,
              FillStripped(MethodStrip(t.itm), width))

DescriptionLoop(split_description, k, width) ==
    IF k > Len(split_description)
    THEN [raised |-> "None", value |-> split_description]
    ELSE LoopBody(split_description, k, width,
                  LoopTarget(Enumerate(split_description)[k]))

\* meta.description = "\n".join(split_description), if the loop ended.
JoinDescription(description, r) ==
    IF r.raised # "None"
    THEN [raised |-> r.raised, value |-> description]
    ELSE [raised |-> "None", value |-> PyStr(StrJoinLines(r.value))]

\* "if meta.description:" and the block under it.
WrapDescription(description, width) ==
    IF Truthy(description)
    THEN JoinDescription(description,
                         DescriptionLoop(StrSplitLines(description.val), 1, width))
    ELSE [raised |-> "None", value |-> description]

\* [arg.strip() for arg in meta.args if arg.strip()]
RECURSIVE StripArgs(_)
StripArgs(args) ==
    IF args = <<>> THEN <<>>
    ELSE IF StrStrip(Head(args)) # <<>>
         THEN <<StrStrip(Head(args))>> \o StripArgs(Tail(args))
    ELSE StripArgs(Tail(args))

\* "if meta.args: meta.args = [...]"
CleanArgs(args) == IF args # <<>> THEN StripArgs(args) ELSE args

\* A variant that replaces the fragment by a fresh DocstringMeta holding
\* the cleaned args and description.
MetaStepRebuilds(m, w) ==
    IF w.raised # "None"
    THEN [raised |-> w.raised, value |-> m]
    ELSE [raised |-> "None",
          value |-> DocstringMeta("DocstringMeta", CleanArgs(m.args), w.value)]

\* A variant that cleans the args before it wraps the description.
MetaStepArgsFirst(m, w) ==
    IF w.raised # "None"
    THEN [raised |-> w.raised, value |-> [m EXCEPT !.args = CleanArgs(m.args)]]
    ELSE [raised |-> "None",
          value |-> [m EXCEPT !.description = w.value,
                              !.args = CleanArgs(m.args)]]

\* One pass of "for meta in docstring.meta": the description (w is what
\* wrapping it came to), then the args.
MetaStep(m, w) ==
    IF w.raised # "None"
    THEN [raised |-> w.raised, value |-> m]
    ELSE [raised |-> "None",
          value |-> [m EXCEPT !.description = w.value,
                              !.args = CleanArgs(m.args)]]

\* "for meta in docstring.meta", from fragment i on; r.value is fragment i
\* as its pass left it, at a raise too.
RECURSIVE MetaLoop(_, _, _)
MetaNext(d, i, width, r) ==
    IF r.raised # "None"
    THEN [raised |-> r.raised, at |-> i,
          docstring |-> [d EXCEPT !.meta[i] = r.value]]
    ELSE MetaLoop([d EXCEPT !.meta[i] = r.value], i + 1, width)

MetaLoop(d, i, width) ==
    IF i > Len(d.meta)
    THEN [raised |-> "None", at |-> 0, docstring |-> d]
    ELSE MetaNext(d, i, width,
                  MetaStep(d.meta[i], WrapDescription(d.meta[i].description, width)))

\* The statement on long_description and what follows it; l is what
\* FillField came to.
AfterLong(d, width, l) ==
    IF l.raised # "None"
    THEN [raised |-> l.raised, at |-> 0, docstring |-> d]
    ELSE MetaLoop([d EXCEPT !.long_description = l.value], 1, width)

\* The statement on short_description and what follows it.
AfterShort(d, width, s) ==
    IF s.raised # "None"
    THEN [raised |-> s.raised, at |-> 0, docstring |-> d]
    ELSE AfterLong([d EXCEPT !.short_description = s.value], width,
                   FillField(d.long_description, width))

\* The whole call: the object as the call leaves it, whether it returned
\* or raised (at: the index of the fragment being processed at the raise,
\* 0 when the raise came before the loop).
format_docstring_to_pep257(d, width) ==
    AfterShort(d, width, FillField(d.short_description, width))

(***************************************************************************)
(* Inputs.                                                                 *)
(***************************************************************************)
Alphabet == {"a", " ", "\n", "\t"}

\* Every text of at most n characters over the alphabet.
TextsUpTo(n) == UNION {[1..k -> Alphabet] : k \in 0..n}

\* "This is a test."
TextThisIsATest ==
    <<"T", "h", "i", "s", " ", "i", "s", " ", "a", " ", "t", "e", "s", "t",
      ".">>

\* The widths a call is made with: non-positive ones, the small ones, the
\* two of the documented scenarios and the default.
ScenarioWidths == {10, 20}
Widths == (-1 .. MaxWidth) \cup ScenarioWidths \cup {DefaultWidth}
\* The widths the populated object is normalised with.
CallWidths == {0, 2}

\* The args token list fragments are built with: ["  a ", "", "b\t"].
ArgsRaw == << <<" ", " ", "a", " ">>, <<>>, <<"b", "\t">> >>

\* " aa a\n a": two lines, both with surrounding whitespace.
TextTwoLines == <<" ", "a", "a", " ", "a", "\n", " ", "a">>
\* " aa  a ": a short description with surrounding and doubled whitespace.
TextShort == <<" ", "a", "a", " ", " ", "a", " ">>
\* "a\n\naaa a": a long description with a blank-line paragraph break.
TextLong == <<"a", "\n", "\n", "a", "a", "a", " ", "a">>

\* The fragments a parser appends: of every class, one with raw args and no
\* description and one with raw args and a two-line description; and one
\* with an empty args list and an empty description.
Shapes == {<<ArgsRaw, PyNone>>, <<ArgsRaw, PyStr(TextTwoLines)>>}

\* One fragment of each class, built by its constructor.
NewFragment(cls, args, description) ==
    CASE cls = "DocstringParam" ->
           DocstringParam(args, description, "x", "int", "True", "0")
      [] cls = "DocstringReturns" ->
           DocstringReturns(args, description, "str", "False", "None")
      [] cls = "DocstringRaises" ->
           DocstringRaises(args, description, "ValueError")
      [] cls = "DocstringDeprecated" ->
           DocstringDeprecated(args, description, "1.0")
      [] cls = "DocstringExample" ->
           DocstringExample(args, ">>> f()", description)
      [] cls = "DocstringNote" ->
           DocstringNote(args, "None", description)

FragmentInputs ==
    {NewFragment(cls, sh[1], sh[2]) : cls \in Classes, sh \in Shapes}
    \cup {NewFragment("DocstringNote", <<>>, PyStr(<<>>))}

Styles == {"None", "GOOGLE"}

(***************************************************************************)
(* The state: the Docstring object; the object as it was when the last     *)
(* call of format_docstring_to_pep257 began (pre) and when the current run *)
(* of chained calls began (orig); and what the last operation was.         *)
(***************************************************************************)
VARIABLES docstring, pre, orig, call

vars == <<docstring, pre, orig, call>>

NoCall == [op |-> "populate", width |-> 0, raised |-> "None", at |-> 0, chain |-> 0]

\* docstring = Docstring(style)
Init ==
    /\ \E style \in Styles : docstring = Docstring(style)
    /\ pre = docstring
    /\ orig = docstring
    /\ call = NoCall

Populated(d) ==
    /\ docstring' = d
    /\ pre' = d
    /\ orig' = d
    /\ call' = NoCall

\* A parser stores the summary and whether a blank line followed it.
SetShortDescription(text, blank) ==
    Populated([docstring EXCEPT !.short_description = text,
                                !.blank_after_short_description = blank])

SetLongDescription(text, blank) ==
    Populated([docstring EXCEPT !.long_description = text,
                                !.blank_after_long_description = blank])

\* docstring.meta.append(fragment)
AppendMeta(fragment, limit) ==
    /\ Len(docstring.meta) < limit
    /\ Populated([docstring EXCEPT !.meta =
           Append(@, [fragment EXCEPT !.oid = Len(docstring.meta) + 1])])

\* format_docstring_to_pep257(docstring, width), returning or raising.
Called(r, width, first, chain) ==
    /\ docstring' = r.docstring
    /\ pre' = docstring
    /\ orig' = first
    /\ call' = [op |-> "normalize", width |-> width, raised |-> r.raised,
                at |-> r.at, chain |-> chain]

Normalize(width) ==
    Called(format_docstring_to_pep257(docstring, width), width, docstring, 1)

\* The call repeated on the same object with the same width, as in
\* format_docstring_to_pep257(format_docstring_to_pep257(d, w), w).
NormalizeAgain ==
    /\ call.op = "normalize"
    /\ Called(format_docstring_to_pep257(docstring, call.width), call.width,
              orig, IF call.chain < MaxChain THEN call.chain + 1 ELSE call.chain)

Next ==
    \/ SetShortDescription(PyStr(TextShort), TRUE)
    \/ SetLongDescription(PyStr(TextLong), TRUE)
    \/ \E fragment \in FragmentInputs : AppendMeta(fragment, MaxMeta)
    \/ \E width \in CallWidths : Normalize(width)

Spec == Init /\ [][Next]_vars

(***************************************************************************)
(* The reflow as a function of one text: the object starts with a single   *)
(* text, in short_description, in long_description or as the description   *)
(* of its only fragment, and is normalised, once or repeatedly.            *)
(***************************************************************************)
FillTexts == TextsUpTo(MaxLen) \cup {TextThisIsATest}

InitFill ==
    /\ \E text \in FillTexts :
         \/ docstring = [Docstring("None") EXCEPT !.short_description = PyStr(text)]
         \/ docstring = [Docstring("None") EXCEPT !.long_description = PyStr(text)]
         \/ docstring = [Docstring("None") EXCEPT !.meta =
                <<[NewFragment("DocstringParam", <<>>, PyStr(text)) EXCEPT !.oid = 1]>>]
    /\ pre = docstring
    /\ orig = docstring
    /\ call = NoCall

NextFill ==
    \/ \E width \in Widths : Normalize(width)
    \/ NormalizeAgain

SpecFill == InitFill /\ [][NextFill]_vars

(***************************************************************************)
(* The derived views: fragments of every class are appended, in any order, *)
(* and the object is normalised in between.                                *)
(***************************************************************************)
ViewFragments == {NewFragment(cls, ArgsRaw, PyNone) : cls \in Classes}

NextViews ==
    \/ \E fragment \in ViewFragments : AppendMeta(fragment, MaxViewMeta)
    \/ Normalize(DefaultWidth)

SpecViews == Init /\ [][NextViews]_vars

(***************************************************************************)
(* Vocabulary of the properties.                                           *)
(***************************************************************************)
Called1 == call.op = "normalize" /\ call.width >= 1
Returned == call.op = "normalize" /\ call.raised = "None"

\* The positions of the fragments of a class, and the view they should give.
IndicesOf(meta, cls) == {i \in 1..Len(meta) : meta[i].cls = cls}

IsOrderedSubSeq(view, meta, cls) ==
    /\ Len(view) = Cardinality(IndicesOf(meta, cls))
    /\ \A i \in IndicesOf(meta, cls) :
          view[Cardinality({j \in IndicesOf(meta, cls) : j <= i})] = meta[i]

IsFirstOrAbsent(item, meta, cls) ==
    IF IndicesOf(meta, cls) = {} THEN item = PyNone
    ELSE \E i \in IndicesOf(meta, cls) :
            /\ item = meta[i]
            /\ \A j \in IndicesOf(meta, cls) : i <= j

\* The lines of a text, its whitespace-separated words, and its characters
\* other than whitespace.
LinesOf(text) == StrSplitLines(text)

WordsOf(text) == SelectSeq(RunsOf(text), LAMBDA run : ~IsSpace(run[1]))

NonSpaceOf(text) == SelectSeq(text, LAMBDA c : ~IsSpace(c))

Range(f) == {f[i] : i \in DOMAIN f}

LinesWithin(text, width) == \A line \in Range(LinesOf(text)) : Len(line) <= width

LongWords(text, width) == {word \in Range(WordsOf(text)) : Len(word) > width}

\* Words separated by exactly one space or one line break, nothing around.
SingleSeparated(text) ==
    /\ \A i \in 1..Len(text) : IsSpace(text[i]) =>
          /\ text[i] \in {" ", "\n"}
          /\ 1 < i /\ i < Len(text)
          /\ ~IsSpace(text[i + 1])

\* No line could have taken the first word of the next one.
Greedy(text, width) ==
    \A k \in 1..(Len(LinesOf(text)) - 1) :
        Len(LinesOf(text)[k]) + 1 + Len(Head(WordsOf(LinesOf(text)[k + 1]))) > width

NoBlankLine(text) ==
    text # <<>> => \A line \in Range(LinesOf(text)) : ~IsBlank(line)

\* The two free-text fields of the object.
TextFields == {"short_description", "long_description"}

\* The rewrap a description is documented to get: each line on its own.
RewrapEachLine(text, width) ==
    StrJoinLines([k \in 1..Len(LinesOf(text)) |->
        TextwrapFill(StrStrip(LinesOf(text)[k]), width).value.val])

\* The tokens an args list is documented to become.
StrippedTokens(args) ==
    SelectSeq([k \in 1..Len(args) |-> StrStrip(args[k])], LAMBDA a : a # <<>>)

\* The attributes of a fragment the pass has no business with.
FrameOf(m) ==
    <<m.cls, m.oid, m.arg_name, m.type_name, m.is_optional, m.default,
      m.version, m.is_generator, m.return_name, m.snippet>>

HasText(d) ==
    \/ Truthy(d.short_description)
    \/ Truthy(d.long_description)
    \/ \E i \in 1..Len(d.meta) : Truthy(d.meta[i].description)

(***************************************************************************)
(* C1.  After any sequence of appends and normalisations, params, raises,  *)
(* many_returns, examples and notes are the fragments of their class in    *)
(* the order of meta, and returns / deprecation are the first fragment of  *)
(* their class, or None when meta has none.                                *)
(***************************************************************************)
C1_ViewsReflectMeta ==
    /\ IsOrderedSubSeq(params(docstring), docstring.meta, "DocstringParam")
    /\ IsOrderedSubSeq(raises(docstring), docstring.meta, "DocstringRaises")
    /\ IsOrderedSubSeq(many_returns(docstring), docstring.meta, "DocstringReturns")
    /\ IsOrderedSubSeq(examples(docstring), docstring.meta, "DocstringExample")
    /\ IsOrderedSubSeq(notes(docstring), docstring.meta, "DocstringNote")
    /\ IsFirstOrAbsent(returns(docstring), docstring.meta, "DocstringReturns")
    /\ IsFirstOrAbsent(deprecation(docstring), docstring.meta, "DocstringDeprecated")

\* meta is [Param, Returns, Param], the first two normalised before the
\* third was appended: params has the two Params in order, returns the
\* Returns, deprecation nothing.
C1_Witness ==
    /\ Len(docstring.meta) = 3
    /\ docstring.meta[1].cls = "DocstringParam"
    /\ docstring.meta[2].cls = "DocstringReturns"
    /\ docstring.meta[3].cls = "DocstringParam"
    /\ docstring.meta[1].args # ArgsRaw
    /\ docstring.meta[3].args = ArgsRaw
    /\ params(docstring) = <<docstring.meta[1], docstring.meta[3]>>
    /\ returns(docstring) = docstring.meta[2]
    /\ deprecation(docstring) = PyNone

(***************************************************************************)
(* C2.  With a width of at least 1 the call returns for every populated    *)
(* object, never raising.                                                  *)
(***************************************************************************)
C2_NormalizeTotal == Called1 => call.raised = "None"

(***************************************************************************)
(* C3.  With a width of at least 1, every set description comes out as its *)
(* lines, each stripped and rewrapped on its own, joined by line breaks.   *)
(***************************************************************************)
C3_DescriptionRewrapped ==
    Called1 =>
      \A i \in 1..Len(pre.meta) :
         Truthy(pre.meta[i].description) =>
            docstring.meta[i].description =
               PyStr(RewrapEachLine(pre.meta[i].description.val, call.width))

(***************************************************************************)
(* C4.  A call, returning or raising, leaves the number, order, identity   *)
(* and class of the fragments, their arg_name, type_name, is_optional,     *)
(* default, version, is_generator, return_name and snippet, and the style  *)
(* and blank_after flags of the object as they were; a text field stays a  *)
(* text and an unset one unset.                                            *)
(***************************************************************************)
C4_FramePreserved ==
    call.op = "normalize" =>
      /\ Len(docstring.meta) = Len(pre.meta)
      /\ \A i \in 1..Len(pre.meta) : FrameOf(docstring.meta[i]) = FrameOf(pre.meta[i])
      /\ docstring.style = pre.style
      /\ docstring.blank_after_short_description = pre.blank_after_short_description
      /\ docstring.blank_after_long_description = pre.blank_after_long_description
      /\ \A f \in TextFields : docstring[f].type = pre[f].type

\* A call that returned and rewrote both text fields and the args of two
\* fragments of different classes.
C4_Witness ==
    /\ Returned
    /\ docstring.short_description # pre.short_description
    /\ docstring.long_description # pre.long_description
    /\ docstring.blank_after_short_description
    /\ docstring.style = "GOOGLE"
    /\ Len(pre.meta) = 2
    /\ pre.meta[1].cls # pre.meta[2].cls
    /\ \A i \in 1..2 : docstring.meta[i].args # pre.meta[i].args

(***************************************************************************)
(* C5.  With a width of 0 or less the call raises ValueError and changes   *)
(* nothing whenever short_description or long_description is set, raises   *)
(* whenever any description is set, and returns only when there is no text *)
(* to wrap.                                                                *)
(***************************************************************************)
C5_NonPositiveWidthRaises ==
    (call.op = "normalize" /\ call.width <= 0) =>
      /\ (Truthy(pre.short_description) \/ Truthy(pre.long_description)) =>
            (call.raised = "ValueError" /\ docstring = pre)
      /\ (call.raised = "None") <=> ~HasText(pre)

C5_Witness ==
    /\ call.op = "normalize"
    /\ call.width <= 0
    /\ Truthy(pre.short_description)
    /\ Len(WordsOf(pre.short_description.val)) >= 2
    /\ call.raised = "ValueError"
    /\ docstring = pre

\* C5 as stated: with a width of 0 or less the call does not raise, and
\* leaves each word of a text field on a line of its own.
C5_NonPositiveWidthDegenerate ==
    (call.op = "normalize" /\ call.width <= 0) =>
      /\ call.raised = "None"
      /\ \A f \in TextFields : Truthy(pre[f]) =>
            LinesOf(docstring[f].val) = WordsOf(pre[f].val)

LinesWithinOrWholeWord(out, in, width) ==
    /\ \A line \in Range(LinesOf(out)) :
          Len(line) <= width \/ line \in LongWords(in, width)
    /\ \A word \in LongWords(in, width) : word \in Range(LinesOf(out))

ReflowedParagraph(out, in, width) ==
    /\ NonSpaceOf(out) = NonSpaceOf(in)
    /\ \A i \in 1..Len(out) : out[i] # "\t"
    /\ NoBlankLine(out)
    /\ out # <<>> => (~IsSpace(out[1]) /\ ~IsSpace(out[Len(out)]))
    /\ LongWords(in, width) = {} => WordsOf(out) = WordsOf(in)
    /\ (LongWords(in, width) = {} /\ SingleSeparated(in)) =>
          /\ SingleSeparated(out)
          /\ LinesWithin(out, width)
          /\ Greedy(out, width)

C7_ReflowParagraph ==
    Called1 =>
      \A f \in TextFields : Truthy(pre[f]) =>
         ReflowedParagraph(docstring[f].val, StrStrip(pre[f].val), call.width)

\* "This is a test." at width 10 became "This is a\ntest.".
C7_Witness ==
    /\ Called1
    /\ call.width = 10
    /\ pre.short_description = PyStr(TextThisIsATest)
    /\ docstring.short_description =
          PyStr(SubSeq(TextThisIsATest, 1, 9) \o <<"\n">>
                \o SubSeq(TextThisIsATest, 11, 15))

\* C7 as stated: the output is the input's words, in order, one space or
\* one line break between adjacent words, as many on a line as fit, and
\* no blank line.
C7_WordsSingleSpaced ==
    Called1 =>
      \A f \in TextFields : Truthy(pre[f]) =>
         /\ WordsOf(docstring[f].val) = WordsOf(pre[f].val)
         /\ SingleSeparated(docstring[f].val)
         /\ Greedy(docstring[f].val, call.width)
         /\ NoBlankLine(docstring[f].val)

(***************************************************************************)
(* C8.  With a width of at least 1, every non-empty args list comes out as *)
(* its tokens stripped, the empty ones dropped, the order kept, whether or *)
(* not the fragment has a description.                                     *)
(***************************************************************************)
C8_ArgsStripped ==
    Called1 =>
      \A i \in 1..Len(pre.meta) :
         pre.meta[i].args # <<>> =>
            docstring.meta[i].args = StrippedTokens(pre.meta[i].args)

(***************************************************************************)
(* C9.  A second call with the same width changes nothing when the set     *)
(* short_description and long_description of the object the first call was *)
(* given have no word longer than width and single spaces or line breaks   *)
(* between their words.                                                    *)
(***************************************************************************)
CleanText(d, width) ==
    \A f \in TextFields : Truthy(d[f]) =>
       /\ SingleSeparated(StrStrip(d[f].val))
       /\ LongWords(d[f].val, width) = {}

C9_IdempotentOnCleanText ==
    (call.op = "normalize" /\ call.chain >= 2 /\ CleanText(orig, call.width)) =>
       docstring = pre

\* The first call rewrapped a clean two-line text onto one line; the second
\* left it alone.
C9_Witness ==
    /\ call.op = "normalize"
    /\ call.chain = 2
    /\ Returned
    /\ CleanText(orig, call.width)
    /\ Truthy(orig.short_description)
    /\ Len(WordsOf(orig.short_description.val)) >= 2
    /\ orig # pre
    /\ docstring = pre

\* C9 as stated: a second call with the same width changes nothing,
\* whatever the first one was given.
C9_IdempotentAlways ==
    (call.op = "normalize" /\ call.chain >= 2) => docstring = pre

(***************************************************************************)
(* C10.  A call that raises while processing fragment i has rewritten      *)
(* short_description and long_description and stripped the args of the     *)
(* fragments before i, and has left fragment i and every later fragment    *)
(* as they were.                                                           *)
(***************************************************************************)
C10_PartialOnRaise ==
    (call.op = "normalize" /\ call.raised # "None" /\ call.at >= 1) =>
      /\ \A f \in TextFields :
            docstring[f] = IF Truthy(pre[f])
                           THEN TextwrapFill(StrStrip(pre[f].val), call.width).value
                           ELSE pre[f]
      /\ \A j \in 1..(call.at - 1) :
            /\ docstring.meta[j].args = StrippedTokens(pre.meta[j].args)
            /\ docstring.meta[j].description = pre.meta[j].description
      /\ \A j \in call.at..Len(pre.meta) : docstring.meta[j] = pre.meta[j]
      /\ Len(docstring.meta) = Len(pre.meta)

\* The call raised at the second fragment: both text fields rewritten, the
\* args of the first fragment stripped, the second fragment untouched.
C10_Witness ==
    /\ call.op = "normalize"
    /\ call.raised = "AttributeError"
    /\ call.at = 2
    /\ docstring.short_description # pre.short_description
    /\ docstring.long_description # pre.long_description
    /\ docstring.meta[1].args # pre.meta[1].args
    /\ docstring.meta[2] = pre.meta[2]
    /\ pre.meta[2].args = ArgsRaw

=============================================================================
